---- MODULE Spec2Model ----
(***************************************************************************)
(* A model of the dataset-curation utilities of yo-wrangle / yo-ratchet:   *)
(*   - the patch rectangle of yo_filter/unsupervised.py,                   *)
(*   - the copy operations of yo_wrangle/mine.py,                          *)
(*   - the annotation-line readers,                                        *)
(*   - the annotations-folder lookup of fiftyone_integration.py,           *)
(*   - the file list find_errors hands to the labeling tool.               *)
(* Each part has its own specification (SpecPatch, SpecCopy, ...); the     *)
(* variables of the other parts stay at their idle values.                 *)
(***************************************************************************)
EXTENDS Integers, Sequences, FiniteSets, TLC

VARIABLES
    \* ---- patch extraction (unsupervised.py) ----
    det,        \* the detection: [x, y, w, h], in hundredths of the image
    img,        \* the image size in pixels: [w, h]
    patch,      \* the rectangle computed: [x1, x2, y1, y2], or NoPatch
    patchPc,    \* "idle" | "start" | "features" (model.predict ran) | "cv2_error"
    patchCalls, \* which of "resize" and "predict" were called on the crop
    patchAppended,  \* the caller appended a result entry for the detection
    \* ---- selectively_copy_training_data_for_selected_classes (mine.py) ----
    srcImgs,    \* stems s with <src_images_dir>/s.jpg
    srcAnns,    \* stems s with <src_images_dir>/YOLO_darknet/s.txt
    dstDirExists,     \* dst_images_dir exists
    dstAnnDirExists,  \* dst_images_dir/YOLO_darknet exists
    dstImgs,    \* stems s with <dst_images_dir>/s.jpg
    dstAnns,    \* stems s with <dst_images_dir>/YOLO_darknet/s.txt
    hitList,    \* hit_list, as _get_hits_for_annotations_in_classes returned it
    written,    \* what the call created or wrote: <<"dir" | "ann" | "img", stem>>
    dstExistedAtCall, \* whether dst_images_dir existed when the call began
    copyPc,     \* "idle" | "start" | "done" | "raised"
    \* ---- extract_high_quality_training_data_from_yolo_runs_detect (mine.py) ----
    mAnn,       \* annotations_dir: stem -> NoFile or File(the sequence of detections)
    mArgs,      \* the call's arguments
    mCallee,    \* the parameter defaults of filter_and_aggregated_annotations
    mDstExisted,\* dst_images_dir existed when the call began
    mTmp,       \* the temporary aggregated file: NoFile or [exists, dets: stem -> detections]
    mDst,       \* the destination: [imgs: stems copied, anns: stem -> NoFile or File(detections)]
    mPc,        \* "idle" | "start" | "done" | "raised"
    \* ---- the annotation-line readers ----
    rFile,      \* the lines of one annotation file, each split into its fields
    rReader,    \* which reader ran: "patches" | "fiftyone" | "evaluate"
    rProcessed, \* the lines the reader took a result from, in the order taken
    rErr,       \* the exception that ended the read, or "none"
    rPc,        \* "idle" | "start" | "done" | "raised"
    \* ---- the annotations-folder lookups ----
    dPlatform,  \* "posix" | "windows": which pathlib flavour orders the paths
    dRootExists,\* the subset folder / dataset root exists
    dEntries,   \* its entries: name -> "absent" | "dir" | "file"
    dArg,       \* the annotations_dir argument: None or Some("given")
    dOp,        \* "none" | "_get_annotations_root" | "get_patches"
    dResult,    \* [kind: "return" | "raise", value, names_path]
    \* ---- find_errors ----
    fView,      \* the filepaths of the samples of filtered_dataset, in view order
    fDisk,      \* the regular files that exist
    fVersion,   \* whose find_errors ran: "none" | "yo_ratchet" | "yo_wrangle"
    fHanded,    \* the list in the labeling thread's args
    fIsView,    \* isinstance(filtered_dataset, DatasetView)
    fApp,       \* "none" | "launched" | "raised"
    fPc,        \* "idle" | "start" | "done"
    \* ---- find_errors and edit_labels as threads ----
    tMode,      \* "idle" | "find_errors" (edit_labels on a thread) | "direct"
    tVersion,   \* "yo_ratchet" | "yo_wrangle"
    tIsView,    \* isinstance(filtered_dataset, DatasetView)
    tEnv,       \* [base_dir_exists, lookup, app_exists, tool_exit]
    tMainPc,    \* "none" | "start" | "thread_started" | "done" | "aborted"
    tApp,       \* "none" | "launched" | "raised"
    tThreadPc,  \* position inside edit_labels, or "returned" | "raised"
    tToolRan,   \* the labeling tool process has been started
    \* ---- selectively_copy_... on a file system addressed by paths ----
    fsFiles,    \* path -> content (a sequence of lines) of every regular file
    fsDirs,     \* the paths that are directories
    fsFiles0,   \* fsFiles as the call began
    cpDst,      \* the dst_images_dir argument (src_images_dir is SrcDir)
    cpHits,     \* hit_list
    cpPc,       \* "idle" | "start" | "done" | "raised"

    \* ---- find_n_most_distant_outliers_in_batch ----
    oSorted,    \* the image names of test_df after sort_values, one per patch
    oN,         \* n_outliers
    oResult,    \* the returned list
    oPc,        \* "idle" | "start" | "returned" | "raised"

    \* ---- _get_subset_folders ----
    sPlatform,    \* "posix" | "windows"
    sDatasetRoot, \* None, or Some of what the path is: "missing" | "file" | "dir"
    sImagesRoot,  \* None or Some("images_root")
    sEntries,     \* name -> "absent" | "dir" | "file": the entries of dataset_root
    sResult,      \* [kind: "none" | "return" | "raise", folders: the list]

    \* ---- zoom_image ----
    zImg,       \* [w, h]: the shape of the image passed in
    zPcnt,      \* zoom_pcnt
    zY,         \* y_centre, in hundredths
    zScaled,    \* [w, h]: the shape after _scale_image
    zCrop,      \* [min_x, max_x, min_y, max_y]: the crop window
    zOut,       \* [w, h]: the shape of the image returned
    zPc,        \* "idle" | "start" | "returned" | "cv2_error"

    \* ---- save_bounding_boxes_on_images ----
    bRows,      \* the Photo_Name column of the AI file, one entry per defect row
    bImages,    \* the stems of the .jpg files under images_root
    bDstExisted,\* dst_root existed as the call began
    bDst,       \* file name -> the defect rows whose box is drawn on that image
    bPc,        \* "idle" | "start" | "done" | "raised"

    \* ---- init_fifty_one_dataset: one sample ----
    gVal,       \* [given, file]: val_inferences_root and <stem>.txt under it
    gTrain,     \* [given, file]: train_inferences_root and <stem>.txt under it
    gTruth,     \* the ground-truth file of the image: None or Some(lines)
    gCandidate, \* the subset is the candidate subset
    gSample,    \* [tags, ground_truth, prediction]
    gPc,        \* "idle" | "start" | "built" | "raised"

    \* ---- _extract_filenames_by_tag ----
    xDataset,   \* the samples of the dataset, in insertion order
    xKnown,     \* dataset_label in fo.list_datasets()
    xArgs,      \* [tag, limit, processed, reverse, label_filter]
    xView,      \* the samples of the returned view, in order
    xFiles,     \* list_files_to_edit
    xPc         \* "idle" | "start" | "returned" | "raised"

patchVars == <<det, img, patch, patchPc, patchCalls, patchAppended>>
copyVars == <<srcImgs, srcAnns, dstDirExists, dstAnnDirExists, dstImgs, dstAnns,
              hitList, written, dstExistedAtCall, copyPc>>
mineVars == <<mAnn, mArgs, mCallee, mDstExisted, mTmp, mDst, mPc>>
readVars == <<rFile, rReader, rProcessed, rErr, rPc>>
dirVars == <<dPlatform, dRootExists, dEntries, dArg, dOp, dResult>>
findVars == <<fView, fDisk, fVersion, fHanded, fIsView, fApp, fPc>>
threadVars == <<tMode, tVersion, tIsView, tEnv, tMainPc, tApp, tThreadPc, tToolRan>>
fsVars == <<fsFiles, fsDirs, fsFiles0, cpDst, cpHits, cpPc>>
outlierVars == <<oSorted, oN, oResult, oPc>>
subsetVars == <<sPlatform, sDatasetRoot, sImagesRoot, sEntries, sResult>>
zoomVars == <<zImg, zPcnt, zY, zScaled, zCrop, zOut, zPc>>
boxVars == <<bRows, bImages, bDstExisted, bDst, bPc>>
sampleVars == <<gVal, gTrain, gTruth, gCandidate, gSample, gPc>>
extractVars == <<xDataset, xKnown, xArgs, xView, xFiles, xPc>>
vars == <<patchVars, copyVars, mineVars, readVars, dirVars, findVars, threadVars, fsVars, outlierVars, subsetVars, zoomVars, boxVars, sampleVars, extractVars>>

\* What each part leaves alone.
notPatchVars == <<copyVars, mineVars, readVars, dirVars, findVars, threadVars, fsVars, outlierVars, subsetVars, zoomVars, boxVars, sampleVars, extractVars>>
notCopyVars == <<patchVars, mineVars, readVars, dirVars, findVars, threadVars, fsVars, outlierVars, subsetVars, zoomVars, boxVars, sampleVars, extractVars>>
notMineVars == <<patchVars, copyVars, readVars, dirVars, findVars, threadVars, fsVars, outlierVars, subsetVars, zoomVars, boxVars, sampleVars, extractVars>>
notReadVars == <<patchVars, copyVars, mineVars, dirVars, findVars, threadVars, fsVars, outlierVars, subsetVars, zoomVars, boxVars, sampleVars, extractVars>>
notDirVars == <<patchVars, copyVars, mineVars, readVars, findVars, threadVars, fsVars, outlierVars, subsetVars, zoomVars, boxVars, sampleVars, extractVars>>
notFindVars == <<patchVars, copyVars, mineVars, readVars, dirVars, threadVars, fsVars, outlierVars, subsetVars, zoomVars, boxVars, sampleVars, extractVars>>
notThreadVars == <<patchVars, copyVars, mineVars, readVars, dirVars, findVars, fsVars, outlierVars, subsetVars, zoomVars, boxVars, sampleVars, extractVars>>
notFsVars == <<patchVars, copyVars, mineVars, readVars, dirVars, findVars, threadVars, outlierVars, subsetVars, zoomVars, boxVars, sampleVars, extractVars>>
notOutlierVars == <<patchVars, copyVars, mineVars, readVars, dirVars, findVars, threadVars, fsVars, subsetVars, zoomVars, boxVars, sampleVars, extractVars>>
notSubsetVars == <<patchVars, copyVars, mineVars, readVars, dirVars, findVars, threadVars, fsVars, outlierVars, zoomVars, boxVars, sampleVars, extractVars>>
notZoomVars == <<patchVars, copyVars, mineVars, readVars, dirVars, findVars, threadVars, fsVars, outlierVars, subsetVars, boxVars, sampleVars, extractVars>>
notBoxVars == <<patchVars, copyVars, mineVars, readVars, dirVars, findVars, threadVars, fsVars, outlierVars, subsetVars, zoomVars, sampleVars, extractVars>>
notSampleVars == <<patchVars, copyVars, mineVars, readVars, dirVars, findVars, threadVars, fsVars, outlierVars, subsetVars, zoomVars, boxVars, extractVars>>
notExtractVars == <<patchVars, copyVars, mineVars, readVars, dirVars, findVars, threadVars, fsVars, outlierVars, subsetVars, zoomVars, boxVars, sampleVars>>

\* ======================================================================
\* Arithmetic helpers
\* ======================================================================

Min(a, b) == IF a <= b THEN a ELSE b
Max(a, b) == IF a >= b THEN a ELSE b

\* Python's int() of the quotient a / b (b > 0): truncation toward zero.
PyInt(a, b) == IF a >= 0 THEN a \div b ELSE -((-a) \div b)

\* np.clip with only the upper limit applied.
ClipNoFloor(v, a_min, a_max) == Min(v, a_max)

\* np.clip(v, a_min, a_max)
Clip(v, a_min, a_max) == Min(Max(v, a_min), a_max)

\* ======================================================================
\* Idle values: a part that a specification does not run stays here.
\* ======================================================================

CopyIdle ==
    /\ srcImgs = {} /\ srcAnns = {}
    /\ dstDirExists = FALSE /\ dstAnnDirExists = FALSE
    /\ dstImgs = {} /\ dstAnns = {}
    /\ hitList = <<>> /\ written = {}
    /\ dstExistedAtCall = FALSE
    /\ copyPc = "idle"

\* A file that does not exist, and Python's None (an Optional is a set with at
\* most one member).
NoFile == [exists |-> FALSE, dets |-> <<>>]
File(dets) == [exists |-> TRUE, dets |-> dets]
None == {}
Some(v) == {v}

MineIdle ==
    /\ mAnn = <<>> /\ mArgs = <<>> /\ mCallee = <<>>
    /\ mDstExisted = FALSE
    /\ mTmp = NoFile
    /\ mDst = <<>>
    /\ mPc = "idle"

ReadIdle ==
    /\ rFile = <<>> /\ rReader = "none" /\ rProcessed = <<>>
    /\ rErr = "none" /\ rPc = "idle"

NoResult == [kind |-> "none", value |-> "none", names_path |-> FALSE]

DirIdle ==
    /\ dPlatform = "posix" /\ dRootExists = FALSE /\ dEntries = <<>>
    /\ dArg = None /\ dOp = "idle" /\ dResult = NoResult

FsIdle ==
    /\ fsFiles = <<>> /\ fsDirs = {} /\ fsFiles0 = <<>>
    /\ cpDst = <<>> /\ cpHits = <<>> /\ cpPc = "idle"

ThreadIdle ==
    /\ tMode = "idle" /\ tVersion = "yo_ratchet" /\ tIsView = TRUE
    /\ tEnv = [base_dir_exists |-> TRUE, lookup |-> "ok", app_exists |-> TRUE,
               tool_exit |-> "zero"]
    /\ tMainPc = "none" /\ tApp = "none" /\ tThreadPc = "not_started"
    /\ tToolRan = FALSE

FindIdle ==
    /\ fView = <<>> /\ fDisk = {} /\ fVersion = "none" /\ fHanded = <<>>
    /\ fIsView = TRUE /\ fApp = "none" /\ fPc = "idle"

\* No patch has been cut yet.
NoPatch == [x1 |-> -1, x2 |-> -1, y1 |-> -1, y2 |-> -1]

PatchIdle ==
    /\ det = [x |-> 0, y |-> 0, w |-> 0, h |-> 0]
    /\ img = [w |-> 1, h |-> 1]
    /\ patch = NoPatch
    /\ patchPc = "idle"
    /\ patchCalls = {} /\ patchAppended = FALSE

OutliersIdle ==
    /\ oSorted = <<>> /\ oN = 1 /\ oResult = <<>> /\ oPc = "idle"

SubsetsIdle ==
    /\ sPlatform = "posix" /\ sDatasetRoot = {} /\ sImagesRoot = {}
    /\ sEntries = <<>> /\ sResult = [kind |-> "none", folders |-> <<>>]

ZoomIdle ==
    /\ zImg = [w |-> 1, h |-> 1] /\ zPcnt = 100 /\ zY = 50
    /\ zScaled = [w |-> 0, h |-> 0]
    /\ zCrop = [min_x |-> 0, max_x |-> 0, min_y |-> 0, max_y |-> 0]
    /\ zOut = [w |-> 0, h |-> 0] /\ zPc = "idle"

BoxesIdle ==
    /\ bRows = <<>> /\ bImages = {} /\ bDstExisted = FALSE
    /\ bDst = <<>> /\ bPc = "idle"

SamplesIdle ==
    /\ gVal = [given |-> FALSE, file |-> {}]
    /\ gTrain = [given |-> FALSE, file |-> {}]
    /\ gTruth = {} /\ gCandidate = FALSE
    /\ gSample = [tags |-> <<>>, ground_truth |-> <<>>, prediction |-> <<>>]
    /\ gPc = "idle"

ExtractIdle ==
    /\ xDataset = <<>> /\ xKnown = FALSE
    /\ xArgs = [tag |-> "error", limit |-> 1, processed |-> TRUE,
                reverse |-> TRUE, label_filter |-> {}]
    /\ xView = <<>> /\ xFiles = <<>> /\ xPc = "idle"

\* Every part but the named one is idle.
IdleExcept(part) ==
    /\ part = "patch" \/ PatchIdle
    /\ part = "copy" \/ CopyIdle
    /\ part = "mine" \/ MineIdle
    /\ part = "read" \/ ReadIdle
    /\ part = "dirs" \/ DirIdle
    /\ part = "find" \/ FindIdle
    /\ part = "thread" \/ ThreadIdle
    /\ part = "fs" \/ FsIdle
    /\ part = "outliers" \/ OutliersIdle
    /\ part = "subsets" \/ SubsetsIdle
    /\ part = "zoom" \/ ZoomIdle
    /\ part = "boxes" \/ BoxesIdle
    /\ part = "samples" \/ SamplesIdle
    /\ part = "extract" \/ ExtractIdle

\* ======================================================================
\* Patch extraction: _extract_features_for_patch
\* ======================================================================

\* Normalised coordinates are modelled exactly, in hundredths: the float
\* x is x_h / Hundredths.  PATCH_MARGIN = 0.01 is one hundredth.
Hundredths == 100
PATCH_MARGIN == 1

\* Largest of the small image sides enumerated.
MaxImgDim == 3

Coords == {0, 1, 25, 50, 75, 99, 100}
ImgDims == (1..MaxImgDim) \cup {50, 640}

\* int((c - s / 2 - PATCH_MARGIN) * dim) and int((c + s / 2 + PATCH_MARGIN) * dim),
\* with c, s in hundredths: (2c - s - 2 PATCH_MARGIN) * dim / (2 * Hundredths).
LowEdge(c, s, dim) == Clip(PyInt((2 * c - s - 2 * PATCH_MARGIN) * dim, 2 * Hundredths), 0, dim)
HighEdge(c, s, dim) == Clip(PyInt((2 * c + s + 2 * PATCH_MARGIN) * dim, 2 * Hundredths), 0, dim)

PatchRect(d, im) ==
    [x1 |-> LowEdge(d.x, d.w, im.w), x2 |-> HighEdge(d.x, d.w, im.w),
     y1 |-> LowEdge(d.y, d.h, im.h), y2 |-> HighEdge(d.y, d.h, im.h)]

\* The crop img[y1:y2, x1:x2, :] has no pixel.
EmptyCrop(r) == r.x1 >= r.x2 \/ r.y1 >= r.y2

PatchInit ==
    /\ det \in [x : Coords, y : Coords, w : Coords, h : Coords]
    /\ img \in [w : ImgDims, h : ImgDims]
    /\ patch = NoPatch
    /\ patchPc = "start"
    /\ patchCalls = {} /\ patchAppended = FALSE

\* cv2.resize is called on every crop, with no test of its size before; on a
\* crop without pixels it raises cv2.error and nothing after it runs.
CallsOnCrop(r) == IF EmptyCrop(r) THEN {"resize"} ELSE {"resize", "predict"}

\* The whole of _extract_features_for_patch and the caller's results.append:
\* the rectangle, the crop, the resize, the prediction, the result entry.
ExtractFeaturesForPatch ==
    /\ patchPc = "start"
    /\ patch' = PatchRect(det, img)
    /\ patchCalls' = CallsOnCrop(PatchRect(det, img))
    /\ patchPc' = IF "predict" \in patchCalls' THEN "features" ELSE "cv2_error"
    /\ patchAppended' = (patchPc' = "features")
    /\ UNCHANGED <<det, img, notPatchVars>>

PatchNext == ExtractFeaturesForPatch

InitPatch == PatchInit /\ IdleExcept("patch")

SpecPatch == InitPatch /\ [][PatchNext]_vars

\* ----------------------------------------------------------------------
\* C1: the patch rectangle lies inside the image and is ordered:
\* 0 <= x1 <= x2 <= W and 0 <= y1 <= y2 <= H, for every detection in [0,1]
\* and every image size, also when the padded box leaves [0,1].
C1_PatchWithinImage ==
    patchPc # "start" =>
        /\ 0 <= patch.x1 /\ patch.x1 <= patch.x2 /\ patch.x2 <= img.w
        /\ 0 <= patch.y1 /\ patch.y1 <= patch.y2 /\ patch.y2 <= img.h

\* A rectangle was computed for a box whose padded left edge falls below
\* pixel 0 and whose padded bottom edge falls beyond the last row: both
\* limits of the clip act, and the crop is not empty.
C1_Witness ==
    /\ patchPc = "features"
    /\ PyInt((2 * det.x - det.w - 2 * PATCH_MARGIN) * img.w, 2 * Hundredths) < 0
    /\ PyInt((2 * det.y + det.h + 2 * PATCH_MARGIN) * img.h, 2 * Hundredths) > img.h
    /\ patch.x1 = 0 /\ patch.y2 = img.h

\* ----------------------------------------------------------------------
\* C14: when the clipped rectangle is empty (x1 = x2 or y1 = y2), neither the
\* resize nor the model is invoked on the crop and no result entry is
\* appended: the patch is skipped and the operation goes on.
C14_EmptyPatchSkipped ==
    (patchPc # "start" /\ EmptyCrop(patch)) =>
        /\ patchCalls = {}
        /\ ~patchAppended
        /\ patchPc # "cv2_error"

\* ----------------------------------------------------------------------
\* C15: each patch coordinate equals clip(round(v * dimension), 0, dimension)
\* with v the padded normalised edge, round being rounding to nearest (ties
\* to even, as Python's round).
C15_EdgesRoundedToNearest ==
    LET Round(a, b) ==
            LET q == a \div b
                r == a % b
            IN  IF 2 * r < b THEN q
                ELSE IF 2 * r > b THEN q + 1
                ELSE IF q % 2 = 0 THEN q ELSE q + 1
        Low(c, sz, dim) ==
            Clip(Round((2 * c - sz - 2 * PATCH_MARGIN) * dim, 2 * Hundredths), 0, dim)
        High(c, sz, dim) ==
            Clip(Round((2 * c + sz + 2 * PATCH_MARGIN) * dim, 2 * Hundredths), 0, dim)
    IN  patchPc # "start" =>
            /\ patch.x1 = Low(det.x, det.w, img.w)
            /\ patch.x2 = High(det.x, det.w, img.w)
            /\ patch.y1 = Low(det.y, det.h, img.h)
            /\ patch.y2 = High(det.y, det.h, img.h)

\* ======================================================================
\* selectively_copy_training_data_for_selected_classes (mine.py)
\* ======================================================================

\* Number of image stems, and longest hit list enumerated.
MaxStems == 2
MaxHits == 2

CopyStems == 1..MaxStems

\* _get_hits_for_annotations_in_classes is not part of these sources: any
\* list of stems may come back.
HitLists == UNION {[1..n -> CopyStems] : n \in 0..MaxHits}

Range(f) == {f[i] : i \in DOMAIN f}

\* The loop body's first copy, done as if it had written nothing.
CopyAnnotationNowhere(st, s) == st

\* shutil.copy(src_annotation_path, dst_annotation_path)
CopyAnnotation(st, s) ==
    [st EXCEPT !.anns = @ \cup {s}, !.written = @ \cup {<<"ann", s>>}]

\* The image copy left out.
CopyImageSkipped(st, s) == st

\* shutil.copy(src_image_path, dst_image_path)
CopyImage(st, s) ==
    [st EXCEPT !.imgs = @ \cup {s}, !.written = @ \cup {<<"img", s>>}]

\* The for loop over hit_list from position i.  shutil.copy raises
\* FileNotFoundError when its source file is missing, which ends the call.
RECURSIVE CopyLoop(_, _, _)
CopyLoop(hits, i, st) ==
    IF i > Len(hits) THEN [st EXCEPT !.pc = "done"]
    ELSE IF hits[i] \notin srcAnns THEN [st EXCEPT !.pc = "raised"]
    ELSE IF hits[i] \notin srcImgs
         THEN [CopyAnnotation(st, hits[i]) EXCEPT !.pc = "raised"]
    ELSE CopyLoop(hits, i + 1, CopyImage(CopyAnnotation(st, hits[i]), hits[i]))

CopyInit ==
    /\ srcImgs \in SUBSET CopyStems
    /\ srcAnns \in SUBSET CopyStems
    /\ dstDirExists \in BOOLEAN
    /\ dstAnnDirExists \in (IF dstDirExists THEN BOOLEAN ELSE {FALSE})
    /\ dstImgs \in (IF dstDirExists THEN SUBSET CopyStems ELSE {{}})
    /\ dstAnns \in (IF dstAnnDirExists THEN SUBSET CopyStems ELSE {{}})
    /\ hitList = <<>>
    /\ written = {}
    /\ dstExistedAtCall = dstDirExists
    /\ copyPc = "start"

\* The guard: dst_annotations_dir.exists() raises before anything is written.
SelectivelyCopyRefused ==
    /\ copyPc = "start"
    /\ dstAnnDirExists
    /\ copyPc' = "raised"
    /\ UNCHANGED <<srcImgs, srcAnns, dstDirExists, dstAnnDirExists, dstImgs, dstAnns,
                   hitList, written, dstExistedAtCall, notCopyVars>>

\* mkdir(parents=True), the hit list, then the copy loop.
SelectivelyCopy ==
    /\ copyPc = "start"
    /\ ~dstAnnDirExists
    /\ \E hits \in HitLists :
          LET r == CopyLoop(hits, 1, [pc |-> "loop", anns |-> dstAnns, imgs |-> dstImgs,
                                      written |-> {<<"dir", 0>>}])
          IN /\ hitList' = hits
             /\ dstDirExists' = TRUE
             /\ dstAnnDirExists' = TRUE
             /\ dstAnns' = r.anns
             /\ dstImgs' = r.imgs
             /\ written' = r.written
             /\ copyPc' = r.pc
    /\ UNCHANGED <<srcImgs, srcAnns, dstExistedAtCall, notCopyVars>>

CopyNext == SelectivelyCopyRefused \/ SelectivelyCopy

InitCopy == CopyInit /\ IdleExcept("copy")

SpecCopy == InitCopy /\ [][CopyNext]_vars

\* ----------------------------------------------------------------------
\* C2: when dst_images_dir exists as the call begins, the call raises and
\* has written nothing (no directory, no image, no annotation).
C2_ExistingDstRefused ==
    (dstExistedAtCall /\ copyPc \in {"done", "raised"}) =>
        (copyPc = "raised" /\ written = {})

\* ----------------------------------------------------------------------
\* C6: after a normal return every stem of the hit list has its .jpg in
\* dst_images_dir and its .txt in the annotations sub-folder, and the call
\* wrote no image or annotation of a stem outside the hit list.
C6_HitsCopiedOnly ==
    copyPc = "done" =>
        /\ \A s \in Range(hitList) : s \in dstImgs /\ s \in dstAnns
        /\ \A wr \in written : wr[1] \in {"ann", "img"} => wr[2] \in Range(hitList)

\* A normal return with a non-empty hit list that leaves out a stem whose
\* image and annotation both exist in the source.
C6_Witness ==
    /\ copyPc = "done"
    /\ Len(hitList) >= 1
    /\ \E s \in (srcImgs \cap srcAnns) \ Range(hitList) : s \notin dstImgs

\* ======================================================================
\* extract_high_quality_training_data_from_yolo_runs_detect (mine.py)
\* ======================================================================

\* Most detections in the annotation files of one run, all images together.
MaxDets == 2

\* The images of src_images_dir.
MineStems == {"a", "b"}
MineClasses == {0, 1}

\* The production threshold of a class (classes_json_path), in hundredths.
ProdThreshold(c) == IF c = 0 THEN 50 ELSE 40

\* Confidences in hundredths, centres in hundredths of the image.
ConfLevels == {30, 45, 60}
Positions == {[x |-> 5, y |-> 2], [x |-> 50, y |-> 60]}
Dets == [cls : MineClasses, conf : ConfLevels, pos : Positions]

\* Coefficients in tenths.
LowerCoefs == {7, 10}
UpperCoefs == {None, Some(11)}
\* (filter_horizon, y_wedge_apex) in hundredths; the first is the defaults.
Geometries == {[horizon |-> 0, apex |-> -20], [horizon |-> 50, apex |-> 40]}
RemoveSets == {{}, {1}}

FilesUpTo(n) == {NoFile} \cup {File(ds) : ds \in UNION {[1..k -> Dets] : k \in 0..n}}
FileLen(f) == Len(f.dets)
MineInputs ==
    UNION {{[a |-> fa, b |-> fb] : fb \in FilesUpTo(MaxDets - FileLen(fa))} :
           fa \in FilesUpTo(MaxDets)}

\* ---- filter_and_aggregated_annotations: written from the specification ----

BelowLower(d, lower) == d.conf * 10 < ProdThreshold(d.cls) * lower
AboveUpper(d, upper) == \E u \in upper : d.conf * 10 > ProdThreshold(d.cls) * u
AboveHorizon(d, horizon) == d.pos.y < horizon
\* Above the line from (0,0), or from (1,0), to (0.5, apex).
InWedge(d, apex) ==
    d.pos.y * 100 < 2 * apex * (IF d.pos.x <= 50 THEN d.pos.x ELSE 100 - d.pos.x)
\* The file holds detections, and only of classes to remove.
OnlyRemovedClasses(file, remove) ==
    /\ file.dets # <<>>
    /\ \A i \in DOMAIN file.dets : file.dets[i].cls \in remove

PassesValueRules(d, p) ==
    /\ ~BelowLower(d, p.lower)
    /\ ~AboveUpper(d, p.upper)
    /\ ~AboveHorizon(d, p.horizon)
    /\ ~InWedge(d, p.apex)

FilterFile(file, p) ==
    IF OnlyRemovedClasses(file, p.remove) THEN <<>>
    ELSE SelectSeq(file.dets, LAMBDA d : PassesValueRules(d, p))

\* The surviving detections of every image, in file line order.
FilterAndAggregate(ann, p) ==
    [s \in MineStems |-> FilterFile(ann[s], p)]

\* ---- copy_images_and_annotations_listed_in_aggregated_annotations_file:
\* ---- written from the specification ----

CopyListed(listed, copyAll) ==
    [imgs |-> {s \in MineStems : listed[s] # <<>> \/ copyAll},
     anns |-> [s \in MineStems |-> IF listed[s] # <<>> THEN File(listed[s]) ELSE NoFile]]

\* ---- the caller, mine.py ----

\* The call with classes_to_remove left out.
FilterParamsNoRemove(args, callee) ==
    [lower |-> callee.lower, upper |-> callee.upper,
     horizon |-> args.filter_horizon, apex |-> args.y_wedge_apex,
     remove |-> {}]

\* The parameters filter_and_aggregated_annotations runs with: the call names
\* annotations_dir, classes_json_path, output_path, filter_horizon,
\* y_wedge_apex and classes_to_remove; the two coefficients are not passed,
\* so the callee's own defaults apply.
FilterParams(args, callee) ==
    [lower |-> callee.lower, upper |-> callee.upper,
     horizon |-> args.filter_horizon, apex |-> args.y_wedge_apex,
     remove |-> args.classes_to_remove]

\* The calls whose coefficient arguments are drawn from lowers and uppers.
MineArgs(lowers, uppers) ==
    {[lower_probability_coefficient |-> lo,
      upper_probability_coefficient |-> up,
      filter_horizon |-> g.horizon,
      y_wedge_apex |-> g.apex,
      classes_to_remove |-> rm,
      copy_all_src_images |-> ca] :
        lo \in lowers, up \in uppers, g \in Geometries, rm \in RemoveSets,
        ca \in BOOLEAN}

EmptyDst == [imgs |-> {}, anns |-> [s \in MineStems |-> NoFile]]

MineInit(lowers, uppers) ==
    /\ mAnn \in MineInputs
    /\ mArgs \in MineArgs(lowers, uppers)
    \* The callee's default lower coefficient is not in these sources: either
    \* value; its optional upper coefficient defaults to None.
    /\ mCallee \in [lower : LowerCoefs, upper : {None}]
    /\ mDstExisted \in BOOLEAN
    /\ mTmp = NoFile
    /\ mDst = EmptyDst
    /\ mPc = "start"

\* The copy step refuses an existing destination: the exception leaves the
\* function before os.unlink.
ExtractHighQualityRefused ==
    /\ mPc = "start"
    /\ mDstExisted
    /\ mTmp' = [exists |-> TRUE,
                dets |-> FilterAndAggregate(mAnn, FilterParams(mArgs, mCallee))]
    /\ mPc' = "raised"
    /\ UNCHANGED <<mAnn, mArgs, mCallee, mDstExisted, mDst, notMineVars>>

\* Filter, write the temporary file, copy what it lists, unlink it.
ExtractHighQuality ==
    /\ mPc = "start"
    /\ ~mDstExisted
    /\ mDst' = CopyListed(FilterAndAggregate(mAnn, FilterParams(mArgs, mCallee)),
                          mArgs.copy_all_src_images)
    /\ mTmp' = NoFile
    /\ mPc' = "done"
    /\ UNCHANGED <<mAnn, mArgs, mCallee, mDstExisted, notMineVars>>

MineNext == ExtractHighQualityRefused \/ ExtractHighQuality

\* Calls that leave both coefficients at their defaults (0.7 and None).
InitMine == MineInit({7}, {None}) /\ IdleExcept("mine")

SpecMine == InitMine /\ [][MineNext]_vars

\* Calls that also set the coefficients.
InitMineCoefs == MineInit(LowerCoefs, UpperCoefs) /\ IdleExcept("mine")

SpecMineCoefs == InitMineCoefs /\ [][MineNext]_vars

\* The detections of image s in the destination.
Surviving(s) == Range(mDst.anns[s].dets)

\* The rules other than the confidence rules let d of image s through.
PassesOtherRules(s, d) ==
    /\ ~AboveHorizon(d, mArgs.filter_horizon)
    /\ ~InWedge(d, mArgs.y_wedge_apex)
    /\ ~OnlyRemovedClasses(mAnn[s], mArgs.classes_to_remove)

\* Image s has no detection outside classes_to_remove.
AllInRemovedClasses(s) ==
    \A i \in DOMAIN mAnn[s].dets : mAnn[s].dets[i].cls \in mArgs.classes_to_remove

\* ----------------------------------------------------------------------
\* C3: with upper_probability_coefficient None, a detection (that the other
\* rules let through) survives exactly when its confidence is at least the
\* production threshold of its class times lower_probability_coefficient.
C3_LowerCoefficientDecides ==
    (mPc = "done" /\ mArgs.upper_probability_coefficient = None) =>
        \A s \in MineStems : \A i \in DOMAIN mAnn[s].dets :
            LET d == mAnn[s].dets[i]
            IN PassesOtherRules(s, d) =>
                 (d \in Surviving(s) <=> ~BelowLower(d, mArgs.lower_probability_coefficient))

\* ----------------------------------------------------------------------
\* C4: with upper_probability_coefficient set, no detection whose confidence
\* exceeds the production threshold of its class times the coefficient
\* survives; with None, no detection is dropped for being too confident.
C4_UpperCoefficientDecides ==
    mPc = "done" =>
        \A s \in MineStems : \A i \in DOMAIN mAnn[s].dets :
            LET d == mAnn[s].dets[i]
            IN /\ AboveUpper(d, mArgs.upper_probability_coefficient) => d \notin Surviving(s)
               /\ ( /\ mArgs.upper_probability_coefficient = None
                    /\ PassesOtherRules(s, d)
                    /\ ~BelowLower(d, mArgs.lower_probability_coefficient)
                    /\ ~BelowLower(d, mCallee.lower) ) => d \in Surviving(s)

C24_TempFileRemoved ==
    mPc \in {"done", "raised"} => mTmp = NoFile

\* ======================================================================
\* The annotation-line readers: get_patches_features_data_dict_list
\* (unsupervised.py), _extract_annotation with _get_bounding_box as
\* init_fifty_one_dataset calls them (fiftyone_integration.py), and
\* get_truth_vs_inferred_dict_by_photo (evaluate.py)
\* ======================================================================

\* Longest annotation file enumerated, in lines.
MaxLines == 2

\* A field is one of these strings; int() accepts the first two, float()
\* the first three, and both raise ValueError on the others.
IsInt(t) == t \in {"0", "1"}
IsFloat(t) == t \in {"0", "1", "0.5"}

\* The lines enumerated, as line.split(" ") gives them.
LineShapes ==
    { <<"0", "0.5", "0.5", "0.5", "0.5">>,               \* ground truth
      <<"1", "0.5", "0.5", "0.5", "0.5", "0.5">>,        \* with a confidence
      <<"0", "0.5", "1", "0.5", "0.5", "0.5">>,
      <<"0", "0.5", "0.5">>,                             \* too few fields
      <<"0", "0.5", "0.5", "0.5", "0.5", "0.5", "0.5">>, \* too many fields
      <<"abc", "0.5", "0.5", "0.5", "0.5">>,             \* class not a number
      <<"0", "0.5", "abc", "0.5", "0.5">>,               \* coordinate not a number
      <<"">> }                                           \* a blank line

\* class id, four coordinates and an optional confidence, all numeric.
WellFormed(line) ==
    /\ Len(line) \in {5, 6}
    /\ IsInt(line[1])
    /\ \A i \in 2..Len(line) : IsFloat(line[i])

\* line_split[1:5]
Fields1To5(line) == SubSeq(line, 2, Min(5, Len(line)))

\* What one line does to each reader: "take" (a result is appended),
\* "skip" (continue), or the exception raised.

\* get_patches_features_data_dict_list, loop body, for the class asked for.
PatchesLine(line, class_id) ==
    IF ~IsInt(line[1]) THEN "ValueError"                      \* int(line_split[0])
    ELSE IF line[1] # class_id THEN "skip"                    \* continue
    ELSE IF Len(Fields1To5(line)) # 4 THEN "ValueError"       \* x, y, w, h = ...
    ELSE IF \E i \in 2..5 : ~IsFloat(line[i]) THEN "ValueError"   \* float(x) ...
    ELSE "take"

\* _extract_annotation, then _get_bounding_box on its yolo_box.
FiftyOneLine(line) ==
    IF ~IsInt(line[1]) THEN "ValueError"                      \* int(class_id)
    ELSE IF \E i \in DOMAIN Fields1To5(line) : ~IsFloat(Fields1To5(line)[i])
         THEN "ValueError"                                    \* float(x)
    ELSE IF Len(Fields1To5(line)) < 4 THEN "IndexError"       \* yolo_box[2]
    ELSE "take"

\* get_truth_vs_inferred_dict_by_photo: only the first field is read.
EvaluateLine(line) ==
    IF ~IsInt(line[1]) THEN "ValueError"                      \* int(class_id)
    ELSE "take"

LineOutcome(reader, line) ==
    CASE reader = "patches" -> PatchesLine(line, "0")
      [] reader = "fiftyone" -> FiftyOneLine(line)
      [] reader = "evaluate" -> EvaluateLine(line)

\* The loop over the lines from position i: no reader catches an exception,
\* so the first one ends the read.
RECURSIVE ReadLines(_, _, _, _)
ReadLines(reader, lines, i, taken) ==
    IF i > Len(lines) THEN [pc |-> "done", err |-> "none", processed |-> taken]
    ELSE LET o == LineOutcome(reader, lines[i])
         IN IF o = "take" THEN ReadLines(reader, lines, i + 1, Append(taken, lines[i]))
            ELSE IF o = "skip" THEN ReadLines(reader, lines, i + 1, taken)
            ELSE [pc |-> "raised", err |-> o, processed |-> taken]

\* The orders in which set(lines) may hand out the distinct lines.
SetOrders(lines) ==
    {q \in UNION {[1..n -> Range(lines)] : n \in 0..Len(lines)} :
        /\ Range(q) = Range(lines)
        /\ Len(q) = Cardinality(Range(lines))}

ReadInit ==
    /\ rFile \in UNION {[1..n -> LineShapes] : n \in 0..MaxLines}
    /\ rReader = "none"
    /\ rProcessed = <<>>
    /\ rErr = "none"
    /\ rPc = "start"

Read(reader, lines) ==
    LET r == ReadLines(reader, lines, 1, <<>>)
    IN /\ rPc = "start"
       /\ rReader' = reader
       /\ rProcessed' = r.processed
       /\ rErr' = r.err
       /\ rPc' = r.pc
       /\ UNCHANGED <<rFile, notReadVars>>

\* lines = set(lines): duplicates go and the order is the set's.
ReadPatches == \E q \in SetOrders(rFile) : Read("patches", q)

ReadFiftyOne == Read("fiftyone", rFile)

ReadEvaluate == Read("evaluate", rFile)

ReadNext == ReadPatches \/ ReadFiftyOne \/ ReadEvaluate

InitRead == ReadInit /\ IdleExcept("read")

SpecRead == InitRead /\ [][ReadNext]_vars

\* ----------------------------------------------------------------------
\* C7: a reader skips the malformed lines of a file (wrong field count, a
\* field that is not a number) and takes every well-formed line; the read
\* does not abort.
C7_MalformedLinesSkipped ==
    rPc \in {"done", "raised"} =>
        /\ rPc = "done"
        /\ Range(rProcessed) =
              {l \in Range(rFile) : WellFormed(l) /\ (rReader = "patches" => l[1] = "0")}

\* ======================================================================
\* The annotations-folder lookups: _get_annotations_root
\* (fiftyone_integration.py) and the annotations_dir=None branch of
\* get_patches_features_data_dict_list (unsupervised.py)
\* ======================================================================

YOLO_ANNOTATIONS_FOLDER_NAME == "YOLO_darknet"
LABELS_FOLDER_NAME == "labels"
PASCAL_VOC_FOLDER_NAME == "PASCAL_VOC"

ACCEPTABLE_ANNOTATION_FOLDERS == {YOLO_ANNOTATIONS_FOLDER_NAME, LABELS_FOLDER_NAME}

EntryNames == {YOLO_ANNOTATIONS_FOLDER_NAME, LABELS_FOLDER_NAME, PASCAL_VOC_FOLDER_NAME}

\* The characters of a folder name, as code points.
Codes(name) ==
    CASE name = "YOLO_darknet" -> <<89, 79, 76, 79, 95, 100, 97, 114, 107, 110, 101, 116>>
      [] name = "labels" -> <<108, 97, 98, 101, 108, 115>>
      [] name = "PASCAL_VOC" -> <<80, 65, 83, 67, 65, 76, 95, 86, 79, 67>>
      [] name = "train" -> <<116, 114, 97, 105, 110>>
      [] name = "Val" -> <<86, 97, 108>>
      [] name = ".git" -> <<46, 103, 105, 116>>
      [] name = "images_root" -> <<105, 109, 97, 103, 101, 115, 95, 114, 111, 111, 116>>

\* str.lower() of one character.
Lower(c) == IF c \in 65..90 THEN c + 32 ELSE c

\* What pathlib compares two paths of one folder by: the name as it is on
\* POSIX, the lower-cased name on Windows.
SortKey(name, platform) ==
    IF platform = "windows" THEN [i \in DOMAIN Codes(name) |-> Lower(Codes(name)[i])]
    ELSE Codes(name)

\* a < b for sequences of code points (Python's str ordering).
RECURSIVE SeqLess(_, _)
SeqLess(a, b) ==
    IF a = <<>> THEN b # <<>>
    ELSE IF b = <<>> THEN FALSE
    ELSE IF Head(a) # Head(b) THEN Head(a) < Head(b)
    ELSE SeqLess(Tail(a), Tail(b))

\* sorted(folders)[0]
SortedFirst(folders, platform) ==
    CHOOSE f \in folders :
        \A g \in folders \ {f} : SeqLess(SortKey(f, platform), SortKey(g, platform))

\* sorted(folders)[-1]
SortedLast(folders, platform) ==
    CHOOSE f \in folders :
        \A g \in folders \ {f} : SeqLess(SortKey(g, platform), SortKey(f, platform))

Return(v) == [kind |-> "return", value |-> v, names_path |-> FALSE]
Raise(e, names_path) == [kind |-> "raise", value |-> e, names_path |-> names_path]

\* _get_annotations_root with the fallback replaced by an error.
GetAnnotationsRootNoFallback(exists, entries, platform) ==
    IF ~exists THEN Raise("FileNotFoundError", TRUE)
    ELSE LET folders == {n \in ACCEPTABLE_ANNOTATION_FOLDERS : entries[n] = "dir"}
         IN IF folders # {} THEN Return(SortedLast(folders, platform))
            ELSE Raise("FileNotFoundError", TRUE)

\* _get_annotations_root(subset_folder): iterdir() raises FileNotFoundError
\* (its message holds the path) when the folder is missing.
GetAnnotationsRoot(exists, entries, platform) ==
    IF ~exists THEN Raise("FileNotFoundError", TRUE)
    ELSE LET folders == {n \in ACCEPTABLE_ANNOTATION_FOLDERS : entries[n] = "dir"}
         IN IF folders # {} THEN Return(SortedLast(folders, platform))
            ELSE Return("subset_folder")

\* get_patches_features_data_dict_list, lines 167-175: Path.exists() holds
\* of a file as of a folder; the RuntimeError's message is a fixed text.
PatchesAnnotationsDir(entries, arg) ==
    IF arg # None THEN Return("annotations_dir")
    ELSE IF entries[LABELS_FOLDER_NAME] # "absent" THEN Return(LABELS_FOLDER_NAME)
    ELSE IF entries[YOLO_ANNOTATIONS_FOLDER_NAME] # "absent"
         THEN Return(YOLO_ANNOTATIONS_FOLDER_NAME)
    ELSE Raise("RuntimeError", FALSE)

DirInit ==
    /\ dPlatform \in {"posix", "windows"}
    /\ dRootExists \in BOOLEAN
    /\ dEntries \in (IF dRootExists THEN [EntryNames -> {"absent", "dir", "file"}]
                     ELSE {[n \in EntryNames |-> "absent"]})
    /\ dArg \in {None, Some("given")}
    /\ dOp = "none"
    /\ dResult = NoResult

CallGetAnnotationsRoot ==
    /\ dOp = "none"
    /\ dOp' = "_get_annotations_root"
    /\ dResult' = GetAnnotationsRoot(dRootExists, dEntries, dPlatform)
    /\ UNCHANGED <<dPlatform, dRootExists, dEntries, dArg, notDirVars>>

CallGetPatches ==
    /\ dOp = "none"
    /\ dOp' = "get_patches"
    /\ dResult' = PatchesAnnotationsDir(dEntries, dArg)
    /\ UNCHANGED <<dPlatform, dRootExists, dEntries, dArg, notDirVars>>

DirNext == CallGetAnnotationsRoot \/ CallGetPatches

InitDirs == DirInit /\ IdleExcept("dirs")

SpecDirs == InitDirs /\ [][DirNext]_vars

IsDir(n) == dEntries[n] = "dir"

\* ----------------------------------------------------------------------
\* C8: _get_annotations_root returns the "YOLO_darknet" folder when both it
\* and "labels" are sub-folders, the one that exists when only one does, and
\* the subset folder itself when neither does.
C8_PrefersYoloDarknet ==
    (dOp = "_get_annotations_root" /\ dRootExists) =>
        /\ dResult.kind = "return"
        /\ dResult.value =
             (IF IsDir(YOLO_ANNOTATIONS_FOLDER_NAME) THEN YOLO_ANNOTATIONS_FOLDER_NAME
              ELSE IF IsDir(LABELS_FOLDER_NAME) THEN LABELS_FOLDER_NAME
              ELSE "subset_folder")

\* Neither recognised name exists under a root that exists, and the lookup
\* was asked to find the folder.
NeitherNameExists ==
    /\ dRootExists
    /\ dEntries[YOLO_ANNOTATIONS_FOLDER_NAME] = "absent"
    /\ dEntries[LABELS_FOLDER_NAME] = "absent"
    /\ \/ dOp = "_get_annotations_root"
       \/ dOp = "get_patches" /\ dArg = None

\* ----------------------------------------------------------------------
\* C9, as claimed: when neither recognised name exists, both lookups raise
\* an error whose message names the missing path; none falls back.
C9_MissingDirRaisesNamingPath ==
    NeitherNameExists => (dResult.kind = "raise" /\ dResult.names_path)

\* C9, amended: when neither recognised name exists under an existing root,
\* get_patches_features_data_dict_list (annotations_dir None) raises a
\* RuntimeError whose fixed message names no path, and _get_annotations_root
\* raises nothing and returns the subset folder itself.
C9_MissingDir ==
    NeitherNameExists =>
        IF dOp = "get_patches"
        THEN dResult = Raise("RuntimeError", FALSE)
        ELSE dResult = Return("subset_folder")

\* _get_annotations_root ran on a folder that holds another directory but
\* neither recognised one, and fell back.
C9_Witness ==
    /\ NeitherNameExists
    /\ dOp = "_get_annotations_root"
    /\ IsDir(PASCAL_VOC_FOLDER_NAME)
    /\ dResult.kind = "return"

\* ======================================================================
\* find_errors: the file list handed to the labeling tool
\* (yo_ratchet/fiftyone_integration/filter.py and
\* yo_wrangle/fiftyone_integration.py)
\* ======================================================================

\* Most samples in the filtered view.
MaxView == 2

\* Absolute paths; LinkToA is a symbolic link to FileA.
FileA == "/data/a.jpg"
FileB == "/data/b.jpg"
FileC == "/data/c.jpg"
LinkToA == "/data/link_to_a.jpg"
RegularFiles == {FileA, FileB, FileC}
SamplePaths == RegularFiles \cup {LinkToA}

\* Path(file_name).resolve(): symbolic links are followed.
Resolve(path) == IF path = LinkToA THEN FileA ELSE path

\* Path.exists(): follows links too.
Exists(path, disk) == Resolve(path) \in disk

\* The samples of a view have distinct filepaths.
Views ==
    {v \in UNION {[1..n -> SamplePaths] : n \in 0..MaxView} :
        \A i, j \in DOMAIN v : i # j => v[i] # v[j]}

\* filter.py 173-174: resolve every path, keep those that exist.
RatchetFileNames(view, disk) ==
    SelectSeq([i \in DOMAIN view |-> Resolve(view[i])], LAMBDA f : Exists(f, disk))

\* fiftyone_integration.py 399-411: the list as _extract_filenames_by_tag
\* returned it.
WrangleFileNames(view, disk) == view

FindInit ==
    /\ fView \in Views
    /\ fDisk \in SUBSET RegularFiles
    /\ fVersion = "none"
    /\ fHanded = <<>>
    /\ fIsView \in BOOLEAN
    /\ fApp = "none"
    /\ fPc = "start"

\* The end of both find_errors: the thread is started first, then the app
\* is launched or the exception raised.
LaunchApp(is_view) == IF is_view THEN "launched" ELSE "raised"

\* find_errors of yo_ratchet.
FindErrorsRatchet ==
    /\ fPc = "start"
    /\ fVersion' = "yo_ratchet"
    /\ fHanded' = RatchetFileNames(fView, fDisk)
    /\ fApp' = LaunchApp(fIsView)
    /\ fPc' = "done"
    /\ UNCHANGED <<fView, fDisk, fIsView, notFindVars>>

\* find_errors of yo_wrangle.
FindErrorsWrangle ==
    /\ fPc = "start"
    /\ fVersion' = "yo_wrangle"
    /\ fHanded' = WrangleFileNames(fView, fDisk)
    /\ fApp' = LaunchApp(fIsView)
    /\ fPc' = "done"
    /\ UNCHANGED <<fView, fDisk, fIsView, notFindVars>>

FindNext == FindErrorsRatchet \/ FindErrorsWrangle

InitFind == FindInit /\ IdleExcept("find")

SpecFind == InitFind /\ [][FindNext]_vars

\* ----------------------------------------------------------------------
\* C10: the list handed to the labeling tool holds only paths of files that
\* exist, holds no path twice, and each entry is the path of a sample of the
\* filtered view.
C10_HandedListChecked ==
    fPc = "done" =>
        /\ \A i \in DOMAIN fHanded : Exists(fHanded[i], fDisk)
        /\ \A i, j \in DOMAIN fHanded : i # j => fHanded[i] # fHanded[j]
        /\ \A i \in DOMAIN fHanded : fHanded[i] \in Range(fView)

\* ======================================================================
\* find_errors with edit_labels on a background thread, and edit_labels
\* called directly
\* (yo_ratchet/fiftyone_integration/filter.py and
\* yo_wrangle/fiftyone_integration.py)
\* ======================================================================

\* What the two external invocations and the file system can do.
\* lookup: "poetry env info --path" exits 0 with a path, exits non-zero, or
\* exits 0 printing nothing.  tool_exit: the labeling tool exits 0, exits
\* non-zero, or is still open.
Envs ==
    [base_dir_exists : BOOLEAN,
     lookup : {"ok", "nonzero", "empty"},
     app_exists : BOOLEAN,
     tool_exit : {"zero", "nonzero", "never"}]

ThreadInit ==
    /\ tMode \in {"find_errors", "direct"}
    /\ tVersion \in {"yo_ratchet", "yo_wrangle"}
    /\ tIsView \in BOOLEAN
    /\ tEnv \in Envs
    /\ tMainPc = (IF tMode = "find_errors" THEN "start" ELSE "none")
    /\ tApp = "none"
    /\ tThreadPc = (IF tMode = "find_errors" THEN "not_started" ELSE "entered")
    /\ tToolRan = FALSE

\* An exception that leaves the thread's target is reported by the threading
\* module and ends that thread only: the main thread stays where it is.
ExcepthookKillsMain(main_pc) == "aborted"
Excepthook(main_pc) == main_pc

\* Thread.start() returns as soon as the thread runs; nothing in find_errors
\* joins it, so the launch never looks at the thread's position.
MayLaunchAfterJoin(thread_pc) == thread_pc \in {"returned", "raised"}
MayLaunch(thread_pc) == TRUE

\* subprocess.run(check=True) and subprocess.check_call: a non-zero exit is
\* raised as CalledProcessError.
UncheckedRun(tool_exit) == "returned"
CheckedRun(tool_exit) == IF tool_exit = "zero" THEN "returned" ELSE "raised"

\* edit_labels leaves with this outcome.
EditLabelsEnds(outcome) ==
    /\ tThreadPc' = outcome
    /\ tMainPc' = (IF outcome = "raised" /\ tMode = "find_errors"
                   THEN Excepthook(tMainPc) ELSE tMainPc)

\* find_errors: open_labeling_thread.start().
StartThread ==
    /\ tMode = "find_errors" /\ tMainPc = "start"
    /\ tMainPc' = "thread_started"
    /\ tThreadPc' = "entered"
    /\ UNCHANGED <<tMode, tVersion, tIsView, tEnv, tApp, tToolRan, notThreadVars>>

\* find_errors: the isinstance test, then fo.launch_app or the exception.
MainLaunch ==
    /\ tMainPc = "thread_started"
    /\ MayLaunch(tThreadPc)
    /\ tApp' = LaunchApp(tIsView)
    /\ tMainPc' = "done"
    /\ UNCHANGED <<tMode, tVersion, tIsView, tEnv, tThreadPc, tToolRan, notThreadVars>>

\* edit_labels: assert base_dir.exists() (yo_ratchet only).
EditLabelsAssertBaseDir ==
    /\ tThreadPc = "entered"
    /\ IF tVersion = "yo_wrangle"
       THEN tThreadPc' = "run_tool" /\ UNCHANGED tMainPc
       ELSE IF tEnv.base_dir_exists
            THEN tThreadPc' = "lookup" /\ UNCHANGED tMainPc
            ELSE EditLabelsEnds("raised")
    /\ UNCHANGED <<tMode, tVersion, tIsView, tEnv, tApp, tToolRan, notThreadVars>>

\* edit_labels: subprocess.check_output of "poetry env info --path" and the
\* first line of its output.
EditLabelsLookup ==
    /\ tThreadPc = "lookup"
    /\ IF tEnv.lookup = "ok"
       THEN tThreadPc' = "check_app" /\ UNCHANGED tMainPc
       ELSE EditLabelsEnds("raised")
    /\ UNCHANGED <<tMode, tVersion, tIsView, tEnv, tApp, tToolRan, notThreadVars>>

\* edit_labels: assert open_labeling_app.exists().
EditLabelsCheckApp ==
    /\ tThreadPc = "check_app"
    /\ IF tEnv.app_exists
       THEN tThreadPc' = "run_tool" /\ UNCHANGED tMainPc
       ELSE EditLabelsEnds("raised")
    /\ UNCHANGED <<tMode, tVersion, tIsView, tEnv, tApp, tToolRan, notThreadVars>>

\* edit_labels: the labeling tool's process is started.
EditLabelsStartTool ==
    /\ tThreadPc = "run_tool"
    /\ tThreadPc' = "running"
    /\ tToolRan' = TRUE
    /\ UNCHANGED <<tMode, tVersion, tIsView, tEnv, tMainPc, tApp, notThreadVars>>

\* edit_labels: the labeling tool exits.
EditLabelsToolExits ==
    /\ tThreadPc = "running"
    /\ tEnv.tool_exit # "never"
    /\ EditLabelsEnds(CheckedRun(tEnv.tool_exit))
    /\ UNCHANGED <<tMode, tVersion, tIsView, tEnv, tApp, tToolRan, notThreadVars>>

MainNext == StartThread \/ MainLaunch

EditLabelsNext ==
    \/ EditLabelsAssertBaseDir
    \/ EditLabelsLookup
    \/ EditLabelsCheckApp
    \/ EditLabelsStartTool
    \/ EditLabelsToolExits

ThreadNext == MainNext \/ EditLabelsNext

InitThread == ThreadInit /\ IdleExcept("thread")

SpecThread == InitThread /\ [][ThreadNext]_vars

\* The main thread runs its statements one after the other; nothing is
\* assumed about the labeling tool.
SpecThreadFair == SpecThread /\ WF_vars(StartThread) /\ WF_vars(MainLaunch)

\* ----------------------------------------------------------------------
\* C11: in find_errors, whatever edit_labels does on its thread, the main
\* thread is never stopped by it and ends with the outcome it has when the
\* labeling tool succeeds: the app launched for a DatasetView, its own
\* exception otherwise.
C11_ThreadFailureNotPropagated ==
    tMode = "find_errors" =>
        /\ tMainPc \in {"start", "thread_started", "done"}
        /\ tMainPc = "done" =>
               tApp = (IF tIsView THEN "launched" ELSE "raised")

\* edit_labels has failed on the thread and the main thread has launched the
\* app.
C11_Witness ==
    /\ tMode = "find_errors"
    /\ tThreadPc = "raised"
    /\ tMainPc = "done"
    /\ tApp = "launched"

\* ----------------------------------------------------------------------
\* C12: once the thread is started, the main thread reaches the launch of
\* the app (or its own exception) whatever the labeling tool does, also when
\* the tool never exits.
C12_LaunchWithoutWaiting ==
    (tMainPc = "thread_started") ~> (tMainPc = "done")

\* The labeling tool is open, will never exit, and the app is launched.
C12_Witness ==
    /\ tMode = "find_errors"
    /\ tEnv.tool_exit = "never"
    /\ tThreadPc = "running"
    /\ tMainPc = "done"
    /\ tApp = "launched"

\* ----------------------------------------------------------------------
\* C13: edit_labels called directly never returns normally after a non-zero
\* exit of the environment lookup or of the labeling tool, and the labeling
\* tool is never started when the lookup failed or base_dir does not exist.
C13_NonZeroExitRaises ==
    tMode = "direct" =>
        /\ tThreadPc = "returned" =>
               /\ tEnv.tool_exit = "zero"
               /\ tVersion = "yo_ratchet" => tEnv.lookup # "nonzero"
        /\ (tToolRan /\ tVersion = "yo_ratchet") =>
               tEnv.base_dir_exists /\ tEnv.lookup # "nonzero"

\* edit_labels has raised after the labeling tool exited non-zero.
C13_Witness ==
    /\ tMode = "direct"
    /\ tToolRan
    /\ tEnv.tool_exit = "nonzero"
    /\ tThreadPc = "raised"

\* ======================================================================
\* selectively_copy_training_data_for_selected_classes on a file system
\* addressed by paths, so that dst_images_dir may lie inside src_images_dir
\* (mine.py)
\* ======================================================================

FsStems == {"a", "b"}

\* A path is a sequence of names; a name is a directory name or
\* f"{stem}.{ext}".
Dir(name) == [stem |-> name, ext |-> "dir"]
FileName(stem, ext) == [stem |-> stem, ext |-> ext]
Join(path, name) == Append(path, name)
Parent(path) == SubSeq(path, 1, Len(path) - 1)

SrcDir == <<Dir("src")>>

\* images_dir / YOLO_ANNOTATIONS_FOLDER_NAME
AnnotationsDir(images_dir) == Join(images_dir, Dir(YOLO_ANNOTATIONS_FOLDER_NAME))
\* dir / f"{image_name_stem}.jpg" and dir / f"{image_name_stem}.txt"
ImagePath(dir, stem) == Join(dir, FileName(stem, "jpg"))
AnnotationPath(dir, stem) == Join(dir, FileName(stem, "txt"))

\* dst_images_dir: apart from the source, the source itself, a new folder
\* inside it, or its annotations folder.
DstPlaces ==
    {<<Dir("dst")>>, SrcDir, Join(SrcDir, Dir("sub")), AnnotationsDir(SrcDir)}

Line1 == "0 0.5 0.5 0.1 0.1"
Line2 == "1 0.25 0.75 0.1 0.1 0.9"
AnnotationTexts == {<<>>, <<Line1>>, <<Line1, Line2>>, <<Line2, Line1>>}
ImageBytes(stem) == <<"jpeg", stem>>

\* The images and annotation files of the source.
SourcePaths ==
    {ImagePath(SrcDir, st) : st \in FsStems}
        \cup {AnnotationPath(AnnotationsDir(SrcDir), st) : st \in FsStems}

TheOne(optional) == CHOOSE v \in optional : TRUE

\* The folders that may exist besides SrcDir: each has its parent, and the
\* source annotations folder exists when an annotation file does.
FolderSets(dst, anns) ==
    {d \in SUBSET {AnnotationsDir(SrcDir), dst, AnnotationsDir(dst)} :
        /\ \A q \in d : Len(q) > 1 => Parent(q) \in d \cup {SrcDir}
        /\ (\E t \in FsStems : anns[t] # None) => AnnotationsDir(SrcDir) \in d}

\* The source files: the images of imgs, the annotation texts of anns.
SourceFiles(imgs, anns) ==
    [p \in {ImagePath(SrcDir, st) : st \in imgs}
           \cup {AnnotationPath(AnnotationsDir(SrcDir), st) :
                    st \in {t \in FsStems : anns[t] # None}} |->
        IF p[Len(p)].ext = "jpg" THEN ImageBytes(p[Len(p)].stem)
        ELSE TheOne(anns[p[Len(p)].stem])]

\* The file systems a call with this dst_images_dir can find: any source
\* images, any source annotation texts, and any of the folders involved.
FsStates(dst) ==
    UNION {{[files |-> SourceFiles(imgs, anns), dirs |-> ds \cup {SrcDir}] :
                imgs \in SUBSET FsStems, ds \in FolderSets(dst, anns)} :
           anns \in [FsStems -> {None} \cup {Some(t) : t \in AnnotationTexts}]}

FsHitLists == UNION {[1..n -> FsStems] : n \in 0..MaxHits}

PathExists(path, files, dirs) == path \in dirs \/ path \in DOMAIN files

\* Path.mkdir(parents=True)
RECURSIVE MkdirParents(_, _)
MkdirParents(path, dirs) ==
    IF Len(path) = 0 \/ path \in dirs THEN dirs
    ELSE MkdirParents(Parent(path), dirs \cup {path})

\* A copy that opens the destination and writes nothing.
ShutilCopyNothing(files, src, dst) ==
    IF src \notin DOMAIN files \/ src = dst THEN [files |-> files, ok |-> FALSE]
    ELSE [files |-> [p \in DOMAIN files \cup {dst} |->
                        IF p = dst THEN <<>> ELSE files[p]],
          ok |-> TRUE]

\* shutil.move in the place of shutil.copy.
ShutilMove(files, src, dst) ==
    IF src \notin DOMAIN files \/ src = dst THEN [files |-> files, ok |-> FALSE]
    ELSE [files |-> [p \in (DOMAIN files \cup {dst}) \ {src} |->
                        IF p = dst THEN files[src] ELSE files[p]],
          ok |-> TRUE]

\* shutil.copy(src, dst): FileNotFoundError if src is missing, SameFileError
\* if both name one file, else dst holds the bytes of src.
ShutilCopy(files, src, dst) ==
    IF src \notin DOMAIN files \/ src = dst THEN [files |-> files, ok |-> FALSE]
    ELSE [files |-> [p \in DOMAIN files \cup {dst} |->
                        IF p = dst THEN files[src] ELSE files[p]],
          ok |-> TRUE]

\* The for loop over hit_list from position i.
RECURSIVE FsCopyLoop(_, _, _, _)
FsCopyLoop(hits, i, dst, files) ==
    IF i > Len(hits) THEN [files |-> files, pc |-> "done"]
    ELSE
        LET ann == ShutilCopy(files,
                              AnnotationPath(AnnotationsDir(SrcDir), hits[i]),
                              AnnotationPath(AnnotationsDir(dst), hits[i]))
            image == ShutilCopy(ann.files, ImagePath(SrcDir, hits[i]),
                                ImagePath(dst, hits[i]))
        IN  IF ~ann.ok THEN [files |-> files, pc |-> "raised"]
            ELSE IF ~image.ok THEN [files |-> ann.files, pc |-> "raised"]
            ELSE FsCopyLoop(hits, i + 1, dst, image.files)

FsInit ==
    /\ cpDst \in DstPlaces
    /\ \E st \in FsStates(cpDst) :
          /\ fsFiles = st.files
          /\ fsDirs = st.dirs
          /\ fsFiles0 = st.files
    /\ cpHits = <<>>
    /\ cpPc = "start"

\* dst_annotations_dir.exists(): the exception.
FsSelectivelyCopyRefused ==
    /\ cpPc = "start"
    /\ PathExists(AnnotationsDir(cpDst), fsFiles, fsDirs)
    /\ cpPc' = "raised"
    /\ UNCHANGED <<fsFiles, fsDirs, fsFiles0, cpDst, cpHits, notFsVars>>

\* mkdir(parents=True), the hit list, the copy loop.
FsSelectivelyCopy ==
    /\ cpPc = "start"
    /\ ~PathExists(AnnotationsDir(cpDst), fsFiles, fsDirs)
    /\ fsDirs' = MkdirParents(AnnotationsDir(cpDst), fsDirs)
    /\ \E hits \in FsHitLists :
          LET r == FsCopyLoop(hits, 1, cpDst, fsFiles)
          IN  /\ cpHits' = hits
              /\ fsFiles' = r.files
              /\ cpPc' = r.pc
    /\ UNCHANGED <<fsFiles0, cpDst, notFsVars>>

FsNext == FsSelectivelyCopyRefused \/ FsSelectivelyCopy

InitFs == FsInit /\ IdleExcept("fs")

SpecFs == InitFs /\ [][FsNext]_vars

\* Both copy operations: a call of either.
CopiesNext == FsNext \/ MineNext

InitCopies == InitFs \/ InitMine

SpecCopies == InitCopies /\ [][CopiesNext]_vars

MaxPatches == 6
MaxOutliers == 2

OutlierImages == {"a.jpg", "b.jpg"}

\* int(round(len_results / 3, 0)): thirds never fall on a half.
RoundThird(len_results) == (2 * len_results + 3) \div 6

\* How many names are kept out of len_results for the n_outliers asked.
Keep(len_results, n_outliers) ==
    IF len_results < n_outliers * 3 THEN Max(RoundThird(len_results), 1)
    ELSE n_outliers

\* image_names[:n] for n >= 0
Slice(names, n) == SubSeq(names, 1, Min(n, Len(names)))

OutliersInit ==
    /\ oSorted \in UNION {[1..k -> OutlierImages] : k \in 0..MaxPatches}
    /\ oN \in 1..MaxOutliers
    /\ oResult = <<>>
    /\ oPc = "start"

\* No patch of the class in test_data: get_features_matrix builds a frame
\* without columns and df["features"] raises KeyError.
FindOutliersNoPatch ==
    /\ oPc = "start"
    /\ Len(oSorted) = 0
    /\ oPc' = "raised"
    /\ UNCHANGED <<oSorted, oN, oResult, notOutlierVars>>

\* The names of the first rows of the sorted frame.
FindOutliers ==
    /\ oPc = "start"
    /\ Len(oSorted) > 0
    /\ oResult' = Slice(oSorted, Keep(Len(oSorted), oN))
    /\ oPc' = "returned"
    /\ UNCHANGED <<oSorted, oN, notOutlierVars>>

OutliersNext == FindOutliersNoPatch \/ FindOutliers

InitOutliers == OutliersInit /\ IdleExcept("outliers")

SpecOutliers == InitOutliers /\ [][OutliersNext]_vars

\* ----------------------------------------------------------------------
\* C18: the call returns a list; it has exactly n_outliers names when the
\* class has at least 3 * n_outliers patches in test_data, at most a third
\* as many names as patches when it has fewer, and never more than
\* n_outliers.
C18_OutlierCount ==
    oPc \in {"returned", "raised"} =>
        /\ oPc = "returned"
        /\ Len(oSorted) >= 3 * oN => Len(oResult) = oN
        /\ Len(oSorted) < 3 * oN => 3 * Len(oResult) <= Len(oSorted)
        /\ Len(oResult) <= oN

\* ======================================================================
\* _get_subset_folders (yo_wrangle/fiftyone_integration.py)
\* ======================================================================

\* The names dataset_root may hold.
SubsetEntryNames == EntryNames \cup {"train", "Val", ".git"}

\* The names reserved for annotations.
ReservedNames ==
    {YOLO_ANNOTATIONS_FOLDER_NAME, LABELS_FOLDER_NAME, PASCAL_VOC_FOLDER_NAME}

\* The test of the list comprehension without folder.name[0] != ".".
QualifiesWithoutDotTest(name, kind) ==
    kind = "dir" /\ name \notin ReservedNames

\* folder.is_dir() and folder.name not in [...] and folder.name[0] != "."
Qualifies(name, kind) ==
    kind = "dir" /\ name \notin ReservedNames /\ Codes(name)[1] # 46

\* sorted(folders)
RECURSIVE Sorted(_, _)
Sorted(folders, platform) ==
    IF folders = {} THEN <<>>
    ELSE LET f == SortedFirst(folders, platform)
         IN  <<f>> \o Sorted(folders \ {f}, platform)

SubsetReturn(folders) == [kind |-> "return", folders |-> folders]
SubsetRaise == [kind |-> "raise", folders |-> <<>>]

GetSubsetFolders(dataset_root, images_root, entries, platform) ==
    IF dataset_root = None /\ images_root # None
    THEN SubsetReturn(Sorted(images_root, platform))
    ELSE IF dataset_root # None /\ images_root = None
    THEN IF dataset_root # Some("dir") THEN SubsetRaise
         ELSE SubsetReturn(
                  Sorted({n \in SubsetEntryNames : Qualifies(n, entries[n])},
                         platform))
    ELSE SubsetRaise

SubsetsInit ==
    /\ sPlatform \in {"posix", "windows"}
    /\ sDatasetRoot \in {None, Some("missing"), Some("file"), Some("dir")}
    /\ sImagesRoot \in {None, Some("images_root")}
    /\ sEntries \in (IF sDatasetRoot = Some("dir")
                     THEN [SubsetEntryNames -> {"absent", "dir", "file"}]
                     ELSE {[n \in SubsetEntryNames |-> "absent"]})
    /\ sResult = [kind |-> "none", folders |-> <<>>]

CallGetSubsetFolders ==
    /\ sResult.kind = "none"
    /\ sResult' = GetSubsetFolders(sDatasetRoot, sImagesRoot, sEntries, sPlatform)
    /\ UNCHANGED <<sPlatform, sDatasetRoot, sImagesRoot, sEntries, notSubsetVars>>

SubsetsNext == CallGetSubsetFolders

InitSubsets == SubsetsInit /\ IdleExcept("subsets")

SpecSubsets == InitSubsets /\ [][SubsetsNext]_vars

\* ----------------------------------------------------------------------
\* C19: _get_subset_folders raises when both arguments are None, when both
\* are given, and when dataset_root is not an existing directory; with
\* images_root alone it returns [images_root]; with dataset_root alone it
\* returns, sorted, exactly the sub-directories whose name is not reserved
\* for annotations and does not start with ".".
C19_SubsetFolders ==
    sResult.kind # "none" =>
        IF sDatasetRoot = None
        THEN IF sImagesRoot = None THEN sResult.kind = "raise"
             ELSE sResult = SubsetReturn(<<"images_root">>)
        ELSE IF sImagesRoot # None THEN sResult.kind = "raise"
        ELSE IF sDatasetRoot # Some("dir") THEN sResult.kind = "raise"
        ELSE /\ sResult.kind = "return"
             /\ Range(sResult.folders) =
                    {n \in SubsetEntryNames :
                        /\ sEntries[n] = "dir"
                        /\ n \notin {"YOLO_darknet", "labels", "PASCAL_VOC"}
                        /\ n # ".git"}
             /\ \A i, j \in DOMAIN sResult.folders :
                    i < j => SeqLess(SortKey(sResult.folders[i], sPlatform),
                                     SortKey(sResult.folders[j], sPlatform))

\* dataset_root alone, holding a hidden folder and reserved folders besides
\* two subsets: the two subsets came back.
C19_Witness ==
    /\ sResult.kind = "return"
    /\ sDatasetRoot = Some("dir")
    /\ sEntries[".git"] = "dir"
    /\ sEntries["labels"] = "dir"
    /\ Len(sResult.folders) = 2

\* ======================================================================
\* zoom_image, _scale_image, _crop_image_for_given_centre (visualise.py)
\* ======================================================================

\* Largest image side enumerated.
MaxZoomDim == 4

\* zoom_pcnt values whose factor 100 / zoom_pcnt times a small integer is
\* computed without rounding across an integer, and y_centre in hundredths.
ZoomPcnts == {25, 50, 80, 100, 125, 200, 400}
YCentres == {0, 25, 50, 75, 100}

\* _scale_image: int(img.shape[1] * factor), int(img.shape[0] * factor) with
\* factor = 100 / zoom_pcnt.
ScaleImage(im, zoom_pcnt) ==
    [w |-> PyInt(im.w * 100, zoom_pcnt), h |-> PyInt(im.h * 100, zoom_pcnt)]

\* _crop_image_for_given_centre(img, dim, y_centre): the window.
CropWindow(im, dim, y_centre) ==
    LET crop_width == IF dim.w < im.w THEN dim.w ELSE im.w
        crop_height == IF dim.h < im.h THEN dim.h ELSE im.h
        min_x == PyInt(im.w - crop_width, 2)
        max_x == PyInt(im.w + crop_width, 2)
        min_y0 == PyInt(2 * im.h * y_centre - Hundredths * crop_height,
                        2 * Hundredths)
        min_y1 == IF min_y0 < 0 THEN 0 ELSE min_y0
        max_y1 == min_y1 + crop_height
    IN  [min_x |-> min_x, max_x |-> max_x,
         min_y |-> IF max_y1 > im.h THEN im.h - crop_height ELSE min_y1,
         max_y |-> IF max_y1 > im.h THEN im.h ELSE max_y1]

\* The length of a[lo:hi] for an axis of n entries and lo, hi >= 0.
SliceLen(lo, hi, n) == Max(0, Min(hi, n) - Min(lo, n))

\* img[min_y:max_y, min_x:max_x]
CropShape(im, win) ==
    [w |-> SliceLen(win.min_x, win.max_x, im.w),
     h |-> SliceLen(win.min_y, win.max_y, im.h)]

ZoomInit ==
    /\ zImg \in [w : 1..MaxZoomDim, h : 1..MaxZoomDim]
    /\ zPcnt \in ZoomPcnts
    /\ zY \in YCentres
    /\ zScaled = [w |-> 0, h |-> 0]
    /\ zCrop = [min_x |-> 0, max_x |-> 0, min_y |-> 0, max_y |-> 0]
    /\ zOut = [w |-> 0, h |-> 0]
    /\ zPc = "start"

\* cv2.resize to a size with a zero side raises cv2.error.
ZoomImageResizeFails ==
    /\ zPc = "start"
    /\ ScaleImage(zImg, zPcnt).w = 0 \/ ScaleImage(zImg, zPcnt).h = 0
    /\ zPc' = "cv2_error"
    /\ UNCHANGED <<zImg, zPcnt, zY, zScaled, zCrop, zOut, notZoomVars>>

\* zoom_image: scale, then crop to the size passed in.
ZoomImage ==
    /\ zPc = "start"
    /\ ScaleImage(zImg, zPcnt).w > 0 /\ ScaleImage(zImg, zPcnt).h > 0
    /\ zScaled' = ScaleImage(zImg, zPcnt)
    /\ zCrop' = CropWindow(zScaled', zImg, zY)
    /\ zOut' = CropShape(zScaled', zCrop')
    /\ zPc' = "returned"
    /\ UNCHANGED <<zImg, zPcnt, zY, notZoomVars>>

ZoomNext == ZoomImageResizeFails \/ ZoomImage

InitZoom == ZoomInit /\ IdleExcept("zoom")

SpecZoom == InitZoom /\ [][ZoomNext]_vars

\* ----------------------------------------------------------------------
\* C20: zoom_image returns an image of the width and height of the image
\* passed in, for every image size, zoom_pcnt > 0 and y_centre, and the crop
\* window lies inside the scaled image.
C20_ZoomKeepsSize ==
    zPc \in {"returned", "cv2_error"} =>
        /\ zPc = "returned"
        /\ zOut = zImg
        /\ 0 <= zCrop.min_x /\ zCrop.min_x <= zCrop.max_x
        /\ zCrop.max_x <= zScaled.w
        /\ 0 <= zCrop.min_y /\ zCrop.min_y <= zCrop.max_y
        /\ zCrop.max_y <= zScaled.h

\* ======================================================================
\* save_bounding_boxes_on_images and draw_polygon_on_image (visualise.py)
\* ======================================================================

\* Most defect rows in the AI file.
MaxRows == 3

BoxStems == {"a", "b"}

\* dst_root / f"{img_path.stem}_{img_path.suffix}": the index of the row is
\* not part of the name.
DstName(stem, index) == [stem |-> stem, index |-> None]

\* The positions in the AI file of the rows of one photo, in file order:
\* df.loc[df["Photo_Name"] == photo_name].reset_index()
RowsOf(rows, photo) ==
    SelectSeq([i \in DOMAIN rows |-> i], LAMBDA i : rows[i] = photo)

\* draw_polygon_on_image(image_file, coords, dst_path): read image_file, draw
\* one polygon, write dst_path.  from_src says image_file is the source image.
DrawPolygonOnImage(files, from_src, dst_name, row) ==
    LET image == IF from_src THEN {} ELSE files[dst_name]
    IN  [n \in DOMAIN files \cup {dst_name} |->
            IF n = dst_name THEN image \cup {row} ELSE files[n]]

\* for index, row in image_data.iterrows(), from position index + 1.
RECURSIVE DrawRows(_, _, _, _)
DrawRows(files, stem, photo_rows, index) ==
    IF index >= Len(photo_rows) THEN files
    ELSE DrawRows(DrawPolygonOnImage(files, index = 0, DstName(stem, index),
                                     photo_rows[index + 1]),
                  stem, photo_rows, index + 1)

\* for img_path in get_all_jpg_recursive(images_root)
RECURSIVE DrawImages(_, _, _)
DrawImages(files, rows, images) ==
    IF images = {} THEN files
    ELSE LET stem == CHOOSE st \in images : TRUE
         IN  DrawImages(DrawRows(files, stem, RowsOf(rows, stem), 0), rows,
                        images \ {stem})

BoxesInit ==
    /\ bRows \in UNION {[1..n -> BoxStems] : n \in 0..MaxRows}
    /\ bImages \in SUBSET BoxStems
    /\ bDstExisted \in BOOLEAN
    /\ bDst = <<>>
    /\ bPc = "start"

\* pandas.read_csv raises EmptyDataError on a file without rows; the
\* assertion refuses an existing dst_root.
SaveBoundingBoxesRaises ==
    /\ bPc = "start"
    /\ bRows = <<>> \/ bDstExisted
    /\ bPc' = "raised"
    /\ UNCHANGED <<bRows, bImages, bDstExisted, bDst, notBoxVars>>

\* mkdir, then every image with its rows.
SaveBoundingBoxes ==
    /\ bPc = "start"
    /\ bRows # <<>> /\ ~bDstExisted
    /\ bDst' = DrawImages(<<>>, bRows, bImages)
    /\ bPc' = "done"
    /\ UNCHANGED <<bRows, bImages, bDstExisted, notBoxVars>>

BoxesNext == SaveBoundingBoxesRaises \/ SaveBoundingBoxes

InitBoxes == BoxesInit /\ IdleExcept("boxes")

SpecBoxes == InitBoxes /\ [][BoxesNext]_vars

\* ----------------------------------------------------------------------
\* C21: every image written to dst_root has exactly one bounding box, its
\* file name carries the index of the defect, an image with k defect rows
\* yields k files, and the call refuses an existing dst_root.
C21_OneImagePerDefect ==
    /\ (bPc \in {"done", "raised"} /\ bDstExisted) => bPc = "raised"
    /\ bPc = "done" =>
          /\ \A n \in DOMAIN bDst : Cardinality(bDst[n]) = 1 /\ n.index # None
          /\ \A st \in bImages :
                Cardinality({n \in DOMAIN bDst : n.stem = st})
                    = Len(RowsOf(bRows, st))

\* ======================================================================
\* init_fifty_one_dataset: the sample of one image
\* (yo_wrangle/fiftyone_integration.py)
\* ======================================================================

\* The lines of the files enumerated: a prediction, and a line that
\* _extract_annotation raises on.
SampleLines ==
    { <<"1", "0.5", "0.5", "0.5", "0.5", "0.5">>,
      <<"0", "0.5", "abc", "0.5", "0.5">> }

\* <stem>.txt: missing, or its lines.
SampleFiles ==
    {None} \cup {Some(f) : f \in UNION {[1..n -> SampleLines] : n \in 0..MaxLines}}

\* An inferences root: None, or a folder in which <stem>.txt may exist.
InferenceRoots ==
    {[given |-> FALSE, file |-> None]}
        \cup {[given |-> TRUE, file |-> f] : f \in SampleFiles}

NoSample == [tags |-> <<>>, ground_truth |-> <<>>, prediction |-> <<>>]

\* Two separate if statements in the place of if / elif.
InferencesPathTwoIfs(val, train) ==
    LET has_val == val.given /\ val.file # None
        has_train == train.given /\ train.file # None
    IN  [tags |-> (IF has_val THEN <<"val">> ELSE <<>>)
                      \o (IF has_train THEN <<"train">> ELSE <<>>),
         file |-> IF has_train THEN train.file
                  ELSE IF has_val THEN val.file ELSE None]

\* Lines 170-184: which inferences file is read, and the tag it brings.
InferencesPath(val, train) ==
    IF val.given /\ val.file # None
    THEN [tags |-> <<"val">>, file |-> val.file]
    ELSE IF train.given /\ train.file # None
    THEN [tags |-> <<"train">>, file |-> train.file]
    ELSE [tags |-> <<>>, file |-> None]

\* The lines of a file that exists, none for a missing one.
LinesOf(file) == IF file = None THEN <<>> ELSE TheOne(file)

\* The loop body of init_fifty_one_dataset for one image.
BuildSample(truth, val, train, candidate) ==
    LET detections == ReadLines("fiftyone", LinesOf(truth), 1, <<>>)
        inferences == InferencesPath(val, train)
        predictions == ReadLines("fiftyone", LinesOf(inferences.file), 1, <<>>)
    IN  IF detections.pc = "raised" \/ predictions.pc = "raised"
        THEN [pc |-> "raised", sample |-> NoSample]
        ELSE [pc |-> "built",
              sample |->
                [tags |-> inferences.tags
                            \o (IF inferences.file # None THEN <<"processed">>
                                ELSE <<>>)
                            \o (IF candidate THEN <<"candidate">> ELSE <<>>),
                 ground_truth |-> detections.processed,
                 prediction |-> predictions.processed]]

SamplesInit ==
    /\ gVal \in InferenceRoots
    /\ gTrain \in InferenceRoots
    /\ gTruth \in SampleFiles
    /\ gCandidate \in BOOLEAN
    /\ gSample = NoSample
    /\ gPc = "start"

\* A line that _extract_annotation raises on ends the whole call.
InitFiftyOneRaises ==
    /\ gPc = "start"
    /\ BuildSample(gTruth, gVal, gTrain, gCandidate).pc = "raised"
    /\ gPc' = "raised"
    /\ UNCHANGED <<gVal, gTrain, gTruth, gCandidate, gSample, notSampleVars>>

InitFiftyOneSample ==
    /\ gPc = "start"
    /\ BuildSample(gTruth, gVal, gTrain, gCandidate).pc = "built"
    /\ gSample' = BuildSample(gTruth, gVal, gTrain, gCandidate).sample
    /\ gPc' = "built"
    /\ UNCHANGED <<gVal, gTrain, gTruth, gCandidate, notSampleVars>>

SamplesNext == InitFiftyOneRaises \/ InitFiftyOneSample

InitSamples == SamplesInit /\ IdleExcept("samples")

SpecSamples == InitSamples /\ [][SamplesNext]_vars

\* ----------------------------------------------------------------------
\* C22: a sample never has both "val" and "train" (validation inferences
\* win when both files exist); it has "processed" exactly when it has "val"
\* or "train"; its prediction list is non-empty only if it has "processed".
C22_SampleTags ==
    gPc = "built" =>
        LET tags == Range(gSample.tags)
        IN  /\ ~("val" \in tags /\ "train" \in tags)
            /\ (gVal.given /\ gVal.file # None /\ gTrain.given
                    /\ gTrain.file # None) => "val" \in tags
            /\ "processed" \in tags <=> ("val" \in tags \/ "train" \in tags)
            /\ gSample.prediction # <<>> => "processed" \in tags

\* Both inferences files exist and hold predictions: the sample is built from
\* the validation file.
C22_Witness ==
    /\ gPc = "built"
    /\ gVal.given /\ gVal.file # None
    /\ gTrain.given /\ gTrain.file # None
    /\ gSample.prediction # <<>>
    /\ gSample.tags = <<"val", "processed">>

\* ======================================================================
\* _extract_filenames_by_tag (yo_ratchet/fiftyone_integration/filter.py and
\* yo_wrangle/fiftyone_integration.py)
\* ======================================================================

\* Largest limit enumerated.
MaxLimit == 2

\* The samples a dataset may hold.  Each has one ground-truth label and one
\* prediction; rank orders the file paths; uniqueness and mistakenness differ
\* from sample to sample.
SamplePool ==
    { [rank |-> 1, filepath |-> "/data/1.jpg", tags |-> {"processed", "error"},
       gt_label |-> "WS", gt_eval |-> "fn", pred_eval |-> "fp",
       uniqueness |-> 3, mistakenness |-> 1],
      [rank |-> 2, filepath |-> "/data/2.jpg", tags |-> {"processed"},
       gt_label |-> "WS", gt_eval |-> "tp", pred_eval |-> "tp",
       uniqueness |-> 1, mistakenness |-> 3],
      [rank |-> 3, filepath |-> "/data/3.jpg", tags |-> {},
       gt_label |-> "CD", gt_eval |-> "fn", pred_eval |-> "fp",
       uniqueness |-> 2, mistakenness |-> 2],
      [rank |-> 4, filepath |-> "/data/4.jpg", tags |-> {"processed", "error"},
       gt_label |-> "WS", gt_eval |-> "fn", pred_eval |-> "fp",
       uniqueness |-> 4, mistakenness |-> 4] }

ExtractTags == {"error", "mistakenness", "eval_fp", "eval_fn", "eval_tp", "other"}

\* A view sorted by an integer field, ascending, or descending for reverse.
RECURSIVE SortBy(_, _, _)
SortBy(samples, field, reverse) ==
    IF samples = {} THEN <<>>
    ELSE LET first == CHOOSE a \in samples :
                         \A b \in samples \ {a} :
                             IF reverse THEN a[field] > b[field]
                             ELSE a[field] < b[field]
         IN  <<first>> \o SortBy(samples \ {first}, field, reverse)

\* view.limit(n)
Limit(view, n) == SubSeq(view, 1, Min(Max(n, 0), Len(view)))

\* view.match_tags(t)
MatchTags(view, t) == SelectSeq(view, LAMBDA sm : t \in sm.tags)

\* view.filter_labels("ground_truth", ViewField("label") == label)
FilterGroundTruthLabel(view, label) ==
    SelectSeq(view, LAMBDA sm : sm.gt_label = label)

\* view.filter_labels(field, ViewField("eval") == value)
FilterEval(view, field, value) == SelectSeq(view, LAMBDA sm : sm[field] = value)

\* The branch on tag: the view that is returned.
FilteredDataset(dataset, args) ==
    IF args.tag = "mistakenness"
    THEN Limit(SortBy(Range(dataset), "mistakenness", args.reverse), args.limit)
    ELSE IF args.tag = "error"
    THEN Limit(MatchTags(dataset, "error"), args.limit)
    ELSE IF args.tag \in {"eval_fp", "eval_fn", "eval_tp"}
    THEN LET filtered ==
                 IF args.tag = "eval_fp"
                 THEN Limit(SortBy(Range(FilterEval(dataset, "pred_eval", "fp")),
                                   "uniqueness", args.reverse), args.limit)
                 ELSE IF args.tag = "eval_fn"
                 THEN Limit(SortBy(Range(FilterEval(dataset, "gt_eval", "fn")),
                                   "uniqueness", args.reverse), args.limit)
                 ELSE dataset
         IN  SortBy(Range(filtered), "rank", FALSE)
    ELSE dataset

\* The whole function for a known dataset_label.
ExtractFilenamesByTag(dataset, args) ==
    LET labelled == IF args.label_filter # None
                    THEN FilterGroundTruthLabel(dataset, TheOne(args.label_filter))
                    ELSE dataset
        processed == IF args.processed THEN MatchTags(labelled, "processed")
                     ELSE labelled
        view == FilteredDataset(processed, args)
    IN  [view |-> view, files |-> [i \in DOMAIN view |-> view[i].filepath]]

ExtractInit ==
    /\ xDataset \in {SortBy(d, "rank", FALSE) : d \in SUBSET SamplePool}
    /\ xKnown \in BOOLEAN
    /\ xArgs \in [tag : ExtractTags, limit : 0..MaxLimit, processed : BOOLEAN,
                  reverse : BOOLEAN, label_filter : {None, Some("WS")}]
    /\ xView = <<>>
    /\ xFiles = <<>>
    /\ xPc = "start"

\* dataset_label is not in fo.list_datasets().
ExtractUnknownDataset ==
    /\ xPc = "start"
    /\ ~xKnown
    /\ xPc' = "raised"
    /\ UNCHANGED <<xDataset, xKnown, xArgs, xView, xFiles, notExtractVars>>

ExtractFilenames ==
    /\ xPc = "start"
    /\ xKnown
    /\ xView' = ExtractFilenamesByTag(xDataset, xArgs).view
    /\ xFiles' = ExtractFilenamesByTag(xDataset, xArgs).files
    /\ xPc' = "returned"
    /\ UNCHANGED <<xDataset, xKnown, xArgs, notExtractVars>>

ExtractNext == ExtractUnknownDataset \/ ExtractFilenames

InitExtract == ExtractInit /\ IdleExcept("extract")

SpecExtract == InitExtract /\ [][ExtractNext]_vars

\* ----------------------------------------------------------------------
\* C23: for every tag the call returns at most limit paths, the paths are
\* those of the samples of the returned view, one for one and in order, and
\* for an unknown dataset_label it raises and returns no view.
C23_AtMostLimit ==
    /\ (xPc \in {"returned", "raised"} /\ ~xKnown) =>
          (xPc = "raised" /\ xView = <<>> /\ xFiles = <<>>)
    /\ xPc = "returned" =>
          /\ Len(xFiles) <= xArgs.limit
          /\ Len(xFiles) = Len(xView)
          /\ \A i \in DOMAIN xFiles : xFiles[i] = xView[i].filepath

====
